---- MODULE Spec2Model ----
(***************************************************************************)
(* Model of src/benchmark.hpp (class Benchmark): the duration formatter    *)
(* makeDurationString, the calibrated clock (constructor and               *)
(* getSteadyTick_ns) and the adaptive measurement loop of run.             *)
(*                                                                         *)
(* 64-bit quantities that exceed the model checker's integer range are     *)
(* kept as limbs: a picosecond count is a record [s, ms, us, ns, ps] of    *)
(* value ((((s*1000 + ms)*1000 + us)*1000 + ns)*1000 + ps, a nanosecond    *)
(* count is [s, ms, us, ns], and a clock tick is [s, ns].                  *)
(***************************************************************************)
EXTENDS Integers, Sequences, FiniteSets, TLC

(***************************************************************************)
(* Bounds of the model.                                                    *)
(***************************************************************************)
\* The formatter's inputs take each sub-second limb from 0..LimbEdge,
\* 500 and (999-LimbEdge)..999, and the seconds limb from within SecEdge of
\* each tier boundary.
LimbEdge == 1
SecEdge == 1
\* Entries of s_Hz (the program has sizeof(uintptr_t) * 8 of them) and the
\* logical processors rdtscp can report.
NumProc == 2
\* The registry's ~MHz values are 0..MaxMHz.
MaxMHz == 2
\* Calls of getSteadyTick_ns in one behaviour.
MaxReads == 3
\* run: setColumnsNumber(1..MaxColumns), at most MaxBound callables bound by
\* add, minimumRepetitions in 10..MaxMinimumRepetitions.
MaxColumns == 2
MaxBound == 2
MaxMinimumRepetitions == 10
\* run: the largest time budget left when the main measurement starts (ns).
MaxRemaining_ns == 6
\* run: the per-sample threshold and the clarifying budget.  The program has
\* 5 ms and 500 ms (5000000000 ps and 500000000000 ps, 100 samples a pass);
\* the model keeps them above the 1 ns discard limit but within reach of a
\* handful of samples.
minDesiredTime_ps == 5000
minClarifyingTime_ps == 10000

VARIABLES
    \* ---- makeDurationString ----
    fmtPc,          \* "call" before the call, "ret" after it, "off" in other specifications
    duration_ps,    \* the argument (picosecond limbs)
    result,         \* the returned string
    \* ---- Benchmark::Benchmark and getSteadyTick_ns ----
    platform,       \* the build: "win_x64", "win_arm64" or "other"
    ctorPc,         \* position in the constructor, "constructed" after it
    s_Hz,           \* Benchmark::s_Hz: one frequency (ARM64) or one per processor
    idx,            \* the constructor's loop index
    tsc,            \* the hardware counter at the last read
    reads,          \* calls of getSteadyTick_ns so far
    prevTick,       \* value returned by the call before the last one
    tick,           \* value returned by the last call
    \* ---- setColumnsNumber, add, run ----
    pc,             \* position in run; "setup" before it, "done" after it, "fault" on a trap
    m_testees,      \* sequence of [first: name, second: sequence of TesteeMeta]
    m_columns,      \* sequence of ColumnMeta
    m_maxNameLength,
    minimumRepetitions, \* run's argument
    nameIdx,        \* position of itVec in m_testees (from 1)
    slotIdx,        \* position of testee in itVec.second (from 1)
    columnIdx,      \* run's columnIdx (from 0)
    testeeIdx,      \* run's testeeIdx
    i,              \* loop counter of the current measurement loop
    sum_ns,
    n,
    repetitions,
    remainingTime_ns,
    out,            \* the three printed tables
    line,           \* the line run wrote to std::cout last
    \* ---- observation of run (not program state) ----
    calls,          \* invocations of the testee's callable in the current phase
    recorded        \* <<name position, slot position, column index used>> per measured slot

fmtVars == <<fmtPc, duration_ps, result>>
clockVars == <<platform, ctorPc, s_Hz, idx, tsc, reads, prevTick, tick>>
runVars == <<pc, m_testees, m_columns, m_maxNameLength, minimumRepetitions,
             nameIdx, slotIdx, columnIdx, testeeIdx, i, sum_ns, n, repetitions,
             remainingTime_ns, out, line, calls, recorded>>
vars == <<fmtPc, duration_ps, result,
          platform, ctorPc, s_Hz, idx, tsc, reads, prevTick, tick,
          pc, m_testees, m_columns, m_maxNameLength, minimumRepetitions,
          nameIdx, slotIdx, columnIdx, testeeIdx, i, sum_ns, n, repetitions,
          remainingTime_ns, out, line, calls, recorded>>

\* nothing written to std::cout yet
NoLine == [kind |-> "", elapsed_ns |-> 0, text |-> ""]
\* no tick returned yet
NoTick == [s |-> -1, ns |-> 0]
\* the call trapped instead of returning
TrapTick == [s |-> -2, ns |-> 0]
ZeroPs == [s |-> 0, ms |-> 0, us |-> 0, ns |-> 0, ps |-> 0]

\* the clock is not part of a formatter run
ClockOff ==
    /\ platform = "other"
    /\ ctorPc = "off"
    /\ s_Hz = 0
    /\ idx = 0
    /\ tsc = 0
    /\ reads = 0
    /\ prevTick = NoTick
    /\ tick = NoTick


\* run is not part of a formatter or clock run
RunOff ==
    /\ pc = "off"
    /\ m_testees = <<>>
    /\ m_columns = <<>>
    /\ m_maxNameLength = 4
    /\ minimumRepetitions = 0
    /\ nameIdx = 0
    /\ slotIdx = 0
    /\ columnIdx = 0
    /\ testeeIdx = 0
    /\ i = 0
    /\ sum_ns = 0
    /\ n = 0
    /\ repetitions = 0
    /\ out = <<>>
    /\ line = NoLine
    /\ calls = 0
    /\ remainingTime_ns = 0
    /\ recorded = {}

\* the formatter is not part of a clock run
FmtOff ==
    /\ fmtPc = "off"
    /\ duration_ps = ZeroPs
    /\ result = ""

(***************************************************************************)
(* Benchmark::toString and std::to_string                                  *)
(***************************************************************************)
Digit(d) ==
    CASE d = 0 -> "0" [] d = 1 -> "1" [] d = 2 -> "2" [] d = 3 -> "3"
      [] d = 4 -> "4" [] d = 5 -> "5" [] d = 6 -> "6" [] d = 7 -> "7"
      [] d = 8 -> "8" [] d = 9 -> "9"

RECURSIVE to_string(_)
to_string(value) ==
    IF value < 10 THEN Digit(value)
    ELSE to_string(value \div 10) \o Digit(value % 10)

RECURSIVE Zeros(_)
Zeros(k) == IF k <= 0 THEN "" ELSE "0" \o Zeros(k - 1)

\* pads with width zeros instead of width - size
toString_overpad(value, width) ==
    LET r == to_string(value)
    IN  IF Len(r) < width THEN Zeros(width) \o r ELSE r

toString(value, width) ==
    LET r == to_string(value)
    IN  IF Len(r) < width THEN Zeros(width - Len(r)) \o r ELSE r

(***************************************************************************)
(* std::chrono durations as nanosecond limbs                               *)
(***************************************************************************)
nanoseconds(c) ==
    [s |-> c \div 1000000000, ms |-> (c \div 1000000) % 1000,
     us |-> (c \div 1000) % 1000, ns |-> c % 1000]
microseconds(c) ==
    [s |-> c \div 1000000, ms |-> (c \div 1000) % 1000, us |-> c % 1000, ns |-> 0]
milliseconds(c) == [s |-> c \div 1000, ms |-> c % 1000, us |-> 0, ns |-> 0]
seconds(c) == [s |-> c, ms |-> 0, us |-> 0, ns |-> 0]
minutes(c) == seconds(c * 60)
hours(c) == seconds(c * 3600)

\* operator< in place of operator<=
DurLe_strict(a, b) ==
    \/ a.s < b.s
    \/ a.s = b.s /\ a.ms < b.ms
    \/ a.s = b.s /\ a.ms = b.ms /\ a.us < b.us
    \/ a.s = b.s /\ a.ms = b.ms /\ a.us = b.us /\ a.ns < b.ns

\* operator<= of two std::chrono durations
DurLe(a, b) ==
    \/ a.s < b.s
    \/ a.s = b.s /\ a.ms < b.ms
    \/ a.s = b.s /\ a.ms = b.ms /\ a.us < b.us
    \/ a.s = b.s /\ a.ms = b.ms /\ a.us = b.us /\ a.ns <= b.ns

\* duration.count() and duration_cast<...>(duration).count(); the formatter
\* evaluates each only in a tier where it fits the integer range
CountNs(d) == ((d.s * 1000 + d.ms) * 1000 + d.us) * 1000 + d.ns
CountUs(d) == (d.s * 1000 + d.ms) * 1000 + d.us
CountMs(d) == d.s * 1000 + d.ms
CountS(d) == d.s
CountMin(d) == d.s \div 60
CountH(d) == d.s \div 3600

\* std::div
StdDiv(x, y) == [quot |-> x \div y, rem |-> x % y]

(***************************************************************************)
(* Benchmark::makeDurationString                                           *)
(***************************************************************************)
makeDurationString(d_ps) ==
    LET duration == [s |-> d_ps.s, ms |-> d_ps.ms, us |-> d_ps.us, ns |-> d_ps.ns]
    IN  IF d_ps.s = 0 /\ d_ps.ms = 0 /\ d_ps.us = 0 /\ d_ps.ns = 0 /\ d_ps.ps <= 999
        THEN to_string(d_ps.ps) \o "ps"
        ELSE IF DurLe(duration, nanoseconds(999))
        THEN LET div == [quot |-> CountNs(duration), rem |-> d_ps.ps]
             IN  to_string(div.quot) \o "ns " \o toString(div.rem, 3) \o "ps"
        ELSE IF DurLe(duration, microseconds(999))
        THEN LET div == StdDiv(CountNs(duration), 1000)
             IN  to_string(div.quot) \o "us " \o toString(div.rem, 3) \o "ns"
        ELSE IF DurLe(duration, milliseconds(999))
        THEN LET div == StdDiv(CountUs(duration), 1000)
             IN  to_string(div.quot) \o "ms " \o toString(div.rem, 3) \o "us"
        ELSE IF DurLe(duration, seconds(59))
        THEN LET div == StdDiv(CountMs(duration), 1000)
             IN  to_string(div.quot) \o "s " \o toString(div.rem, 3) \o "ms"
        ELSE IF DurLe(duration, minutes(59))
        THEN LET div == StdDiv(CountS(duration), 60)
             IN  to_string(div.quot) \o "m " \o toString(div.rem, 2) \o "s"
        ELSE IF DurLe(duration, hours(23))
        THEN LET div == StdDiv(CountMin(duration), 60)
             IN  to_string(div.quot) \o "h " \o toString(div.rem, 2) \o "m"
        ELSE LET div == StdDiv(CountH(duration), 24)
             IN  to_string(div.quot) \o "d " \o toString(div.rem, 2) \o "h"


(***************************************************************************)
(* Benchmark::Benchmark (calibration) and Benchmark::getSteadyTick_ns      *)
(***************************************************************************)
Procs == 0..(NumProc - 1)
MHzValues == 0..MaxMHz
\* CNTFRQ_EL0 as firmware programs it (the architecture requires a non-zero
\* counter frequency)
CntFrqValues == {1000000, 2000000}
\* how far the counter advances between two reads
TscSteps == {0, 1, 500000, 1500000}
\* how far std::chrono::steady_clock advances between two reads
StdSteps == {0, 1, 500000000}


\* a tick [s, ns] stands for s * 1000000000 + ns
TickLe(a, b) == a.s < b.s \/ (a.s = b.s /\ a.ns <= b.ns)
TickAdd(a, d) ==
    [s |-> a.s + (a.ns + d) \div 1000000000, ns |-> (a.ns + d) % 1000000000]

\* ((r * UINT64_C(1000000000)) / Hz for r < Hz, by long division over the
\* nine decimal digits of the factor (the product exceeds the integer range)
RECURSIVE Pow10(_)
Pow10(k) == IF k = 0 THEN 1 ELSE 10 * Pow10(k - 1)
RECURSIVE MulDivDigits(_, _, _)
MulDivDigits(r, Hz, k) ==
    IF k = 0 THEN 0
    ELSE ((r * 10) \div Hz) * Pow10(k - 1) + MulDivDigits((r * 10) % Hz, Hz, k - 1)

\* const uint64_t s = (tsc / Hz) * 1000000000;
\* const uint64_t ns = ((tsc % Hz) * 1000000000) / Hz;  return s + ns;
TickOf(counter, Hz) ==
    [s |-> counter \div Hz, ns |-> MulDivDigits(counter % Hz, Hz, 9)]

\* static storage: s_Hz is zero-initialised before any constructor runs
ClockInit ==
    /\ platform \in {"win_x64", "win_arm64", "other"}
    /\ ctorPc = "start"
    /\ s_Hz = IF platform = "win_x64" THEN [p \in Procs |-> 0] ELSE 0
    /\ idx = 0
    /\ tsc = 0
    /\ reads = 0
    /\ prevTick = NoTick
    /\ tick = NoTick
    /\ FmtOff
    /\ RunOff

\* s_Hz = _ReadStatusReg(ARM64_CNTFRQ_EL0);
CtorArm64 ==
    /\ platform = "win_arm64" /\ ctorPc = "start"
    /\ \E frq \in CntFrqValues : s_Hz' = frq
    /\ ctorPc' = "constructed"
    /\ UNCHANGED <<platform, idx, tsc, reads, prevTick, tick, fmtVars, runVars>>

\* the constructor body is empty outside _WIN32
CtorOther ==
    /\ platform = "other" /\ ctorPc = "start"
    /\ ctorPc' = "constructed"
    /\ UNCHANGED <<platform, s_Hz, idx, tsc, reads, prevTick, tick, fmtVars, runVars>>

\* std::fill(s_Hz.begin(), s_Hz.end(), 1);
CtorFill ==
    /\ platform = "win_x64" /\ ctorPc = "start"
    /\ s_Hz' = [p \in Procs |-> 1]
    /\ idx' = 0
    /\ ctorPc' = "loop"
    /\ UNCHANGED <<platform, tsc, reads, prevTick, tick, fmtVars, runVars>>

\* RegOpenKeyExA(...) != 0: break; or RegQueryValueExA(...) != 0:
\* RegCloseKey(key), break.  s_Hz[idx] and the later entries keep the fill.
CtorBreak ==
    /\ ctorPc = "loop" /\ idx < NumProc
    /\ \E failed \in {"RegOpenKeyExA", "RegQueryValueExA"} : ctorPc' = "constructed"
    /\ UNCHANGED <<platform, s_Hz, idx, tsc, reads, prevTick, tick, fmtVars, runVars>>

\* uint64_t(MHz) * 1000000
StoredHz(MHz) == MHz * 1000000

\* both registry calls succeed: s_Hz[idx] = uint64_t(MHz) * 1000000;
CtorStore ==
    /\ ctorPc = "loop" /\ idx < NumProc
    /\ \E MHz \in MHzValues : s_Hz' = [s_Hz EXCEPT ![idx] = StoredHz(MHz)]
    /\ idx' = idx + 1
    /\ UNCHANGED <<platform, ctorPc, tsc, reads, prevTick, tick, fmtVars, runVars>>

\* idx == s_Hz.size(): the loop ends
CtorLoopEnd ==
    /\ ctorPc = "loop" /\ idx = NumProc
    /\ ctorPc' = "constructed"
    /\ UNCHANGED <<platform, s_Hz, idx, tsc, reads, prevTick, tick, fmtVars, runVars>>

\* The value of getSteadyTick_ns for counter value c and frequency Hz.  With a
\* zero Hz the two divisions are divisions by zero, which trap on the
\* processors of the rdtscp build.
TickOutcomes(c, Hz) == IF Hz = 0 THEN {TrapTick} ELSE {TickOf(c, Hz)}

\* getSteadyTick_ns on the raw counter (_WIN32)
GetSteadyTickTsc ==
    /\ platform \in {"win_x64", "win_arm64"} /\ ctorPc = "constructed"
    /\ reads < MaxReads
    /\ \E step \in TscSteps :
       \E processorIdx \in (IF platform = "win_x64" THEN Procs ELSE {0}) :
         LET Hz == IF platform = "win_x64" THEN s_Hz[processorIdx] ELSE s_Hz
         IN  \E ret \in TickOutcomes(tsc + step, Hz) :
               /\ tsc' = tsc + step
               /\ IF ret = TrapTick
                  THEN ctorPc' = "fault" /\ UNCHANGED <<prevTick, tick>>
                  ELSE ctorPc' = ctorPc /\ prevTick' = tick /\ tick' = ret
    /\ reads' = reads + 1
    /\ UNCHANGED <<platform, s_Hz, idx, fmtVars, runVars>>

\* getSteadyTick_ns == getSteadyTickStd_ns elsewhere (std::chrono::steady_clock)
GetSteadyTickStd ==
    /\ platform = "other" /\ ctorPc = "constructed"
    /\ reads < MaxReads
    /\ \E step \in StdSteps :
         tick' = IF tick = NoTick THEN [s |-> 0, ns |-> step] ELSE TickAdd(tick, step)
    /\ prevTick' = tick
    /\ reads' = reads + 1
    /\ UNCHANGED <<platform, ctorPc, s_Hz, idx, tsc, fmtVars, runVars>>

ClockNext ==
    \/ CtorArm64
    \/ CtorOther
    \/ CtorFill
    \/ CtorBreak
    \/ CtorStore
    \/ CtorLoopEnd
    \/ GetSteadyTickTsc
    \/ GetSteadyTickStd

SpecClock == ClockInit /\ [][ClockNext]_vars

(***************************************************************************)
(* The formatter's documented domain: 0 .. INT64_MAX picoseconds           *)
(***************************************************************************)
\* INT64_MAX = 9223372 s 036 ms 854 us 775 ns 807 ps
Int64MaxPs == [s |-> 9223372, ms |-> 36, us |-> 854, ns |-> 775, ps |-> 807]

LimbInputs == (0..LimbEdge) \cup {500} \cup ((999 - LimbEdge)..999)

SecAround(b) == {x \in (b - SecEdge)..(b + SecEdge) : x >= 0}
SecInputs ==
    SecAround(0) \cup SecAround(60) \cup SecAround(3540) \cup SecAround(3600)
        \cup SecAround(82800) \cup SecAround(86400) \cup SecAround(9223372)

\* d <= INT64_MAX
InDomain(d) ==
    \/ d.s < Int64MaxPs.s
    \/ /\ d.s = Int64MaxPs.s
       /\ ((d.ms * 1000 + d.us) * 1000 + d.ns)
            <= ((Int64MaxPs.ms * 1000 + Int64MaxPs.us) * 1000 + Int64MaxPs.ns)
       /\ (((d.ms * 1000 + d.us) * 1000 + d.ns)
            = ((Int64MaxPs.ms * 1000 + Int64MaxPs.us) * 1000 + Int64MaxPs.ns)
              => d.ps <= Int64MaxPs.ps)

PsInputs ==
    {d \in [s : SecInputs, ms : LimbInputs, us : LimbInputs,
            ns : LimbInputs, ps : LimbInputs] : InDomain(d)}
        \cup {Int64MaxPs}

FmtInit ==
    /\ fmtPc = "call"
    /\ duration_ps \in PsInputs
    /\ result = ""
    /\ ClockOff
    /\ RunOff

\* one call of makeDurationString(duration_ps)
MakeDurationString ==
    /\ fmtPc = "call"
    /\ result' = makeDurationString(duration_ps)
    /\ fmtPc' = "ret"
    /\ UNCHANGED <<duration_ps, clockVars, runVars>>

FmtNext == MakeDurationString

SpecFmt == FmtInit /\ [][FmtNext]_vars

(***************************************************************************)
(* Benchmark::setColumnsNumber, Benchmark::add, Benchmark::run             *)
(***************************************************************************)
\* INT64_MAX of the run's picosecond fields.  Every measured time of the
\* model is far below it; where it is multiplied or formatted its 64-bit
\* value is used (Times1000, PsOfInt).
INT64_MAX == 2147483647

\* a division by zero trapped
DivTrap == -1

Names == {"A", "Bench"}
\* measured end_ns - begin_ns of one timed sample
DiffInputs == {1, 2, 6}
\* lastTick_ns - getSteadyTickStd_ns() when the main measurement is planned
RemainingInputs == {-1, 0, MaxRemaining_ns}
\* getSteadyTickStd_ns() - benchmarkTesteeBegin_ns and
\* getSteadyTickStd_ns() - benchmarkBegin_ns when they are printed
ElapsedInputs == {0, 7}

StdMin(a, b) == IF b < a THEN b ELSE a
StdMax(a, b) == IF a < b THEN b ELSE a

\* Integer division of non-negative a by b.  By zero it is undefined: the
\* build traps (x86) or yields 0 (AArch64).
DivOutcomes(a, b) == IF b = 0 THEN {DivTrap, 0} ELSE {a \div b}

\* operator/ of C++ (truncation towards zero) for a positive divisor
CDiv(a, b) == IF a >= 0 THEN a \div b ELSE -((-a) \div b)

\* testeeTime_ps * 1000; INT64_MAX * 1000 wraps to -1000 in 64 bits
Times1000(t) == IF t = INT64_MAX THEN -1000 ELSE t * 1000

\* the picosecond limbs of an int64_t field of run
PsOfInt(x) ==
    IF x = INT64_MAX THEN Int64MaxPs
    ELSE [s |-> 0, ms |-> x \div 1000000000, us |-> (x \div 1000000) % 1000,
          ns |-> (x \div 1000) % 1000, ps |-> x % 1000]

\* struct TesteeMeta, struct ColumnMeta as constructed
TesteeMeta == [function |-> FALSE, minimum_ps |-> 0, average_ps |-> 0, maximum_ps |-> 0]
ColumnMeta ==
    [minTime_ps |-> INT64_MAX, maxTime_ps |-> INT64_MAX, avgTime_ps |-> INT64_MAX,
     minTimeStrLength |-> 4, maxTimeStrLength |-> 4, avgTimeStrLength |-> 4]

\* std::vector::resize
Resize(vec, size, fill) ==
    [k \in 1..size |-> IF k <= Len(vec) THEN vec[k] ELSE fill]

\* constexpr uint32_t reps = minClarifyingTime_ps / minDesiredTime_ps;
reps == minClarifyingTime_ps \div minDesiredTime_ps

\* number of callables bound so far
BoundCount ==
    Cardinality({sl \in {<<a, b>> : a \in 1..Len(m_testees), b \in 1..MaxColumns} :
                    /\ sl[2] <= Len(m_testees[sl[1]].second)
                    /\ m_testees[sl[1]].second[sl[2]].function})

RunInit ==
    /\ pc = "setup"
    /\ m_testees = <<>>
    /\ m_columns = <<>>
    /\ m_maxNameLength = 4
    /\ minimumRepetitions = 0
    /\ nameIdx = 0
    /\ slotIdx = 0
    /\ columnIdx = 0
    /\ testeeIdx = 0
    /\ i = 0
    /\ sum_ns = 0
    /\ n = 0
    /\ repetitions = 0
    /\ out = <<>>
    /\ line = NoLine
    /\ calls = 0
    /\ remainingTime_ns = 0
    /\ recorded = {}
    /\ FmtOff
    /\ ClockOff

\* setColumnsNumber(number), called before the first add
SetColumnsNumber ==
    /\ pc = "setup" /\ m_testees = <<>>
    /\ \E number \in 1..MaxColumns : m_columns' = Resize(m_columns, number, ColumnMeta)
    /\ UNCHANGED <<pc, m_testees, m_maxNameLength, minimumRepetitions, nameIdx, slotIdx,
                   columnIdx, testeeIdx, i, sum_ns, n, repetitions, out, calls,
                   remainingTime_ns, recorded, line,
                   fmtVars, clockVars>>

\* position of name in m_testees, 0 when absent
Find(name) ==
    IF \E k \in 1..Len(m_testees) : m_testees[k].first = name
    THEN CHOOSE k \in 1..Len(m_testees) : m_testees[k].first = name
    ELSE 0

\* add(name, column, testee)
Add ==
    /\ pc = "setup" /\ BoundCount < MaxBound
    /\ \E name \in Names : \E column \in 0..(Len(m_columns) - 1) :
        LET at == Find(name)
            grown == IF at = 0
                     THEN Append(m_testees, [first |-> name, second |-> <<>>])
                     ELSE m_testees
            k == IF at = 0 THEN Len(grown) ELSE at
            vec == Resize(grown[k].second, Len(m_columns), TesteeMeta)
        IN  /\ m_maxNameLength' = StdMax(Len(name), m_maxNameLength)
            /\ m_testees' = [grown EXCEPT ![k].second =
                                [vec EXCEPT ![column + 1].function = TRUE]]
    /\ UNCHANGED <<pc, m_columns, minimumRepetitions, nameIdx, slotIdx, columnIdx,
                   testeeIdx, i, sum_ns, n, repetitions, out, calls, remainingTime_ns,
                   recorded, line,
                   fmtVars, clockVars>>

\* run(timePerTestee_s, minimumRepetitions) up to the first loop head
Run ==
    /\ pc = "setup"
    /\ \E reps_ \in 10..MaxMinimumRepetitions : minimumRepetitions' = reps_
    /\ testeeIdx' = 0
    /\ nameIdx' = 1
    /\ slotIdx' = 1
    /\ columnIdx' = 0
    /\ line' = [kind |-> "Benchmark is running for", elapsed_ns |-> 0,
                text |-> to_string(Len(m_testees) * Len(m_columns)) \o " subjects:"]
    /\ pc' = "slot"
    /\ UNCHANGED <<m_testees, m_columns, m_maxNameLength, i, sum_ns, n, repetitions,
                   out, calls, remainingTime_ns, recorded, fmtVars, clockVars>>

\* the testee the inner loop is at
Testee == m_testees[nameIdx].second[slotIdx]
WithTestee(t) == [m_testees EXCEPT ![nameIdx].second[slotIdx] = t]

\* for (auto& itVec : m_testees) { uint8_t columnIdx = 0; ...
NextName ==
    /\ pc = "slot" /\ nameIdx <= Len(m_testees)
    /\ slotIdx > Len(m_testees[nameIdx].second)
    /\ nameIdx' = nameIdx + 1
    /\ slotIdx' = 1
    /\ columnIdx' = 0
    /\ UNCHANGED <<pc, m_testees, m_columns, m_maxNameLength, minimumRepetitions,
                   testeeIdx, i, sum_ns, n, repetitions, out, calls, remainingTime_ns,
                   recorded, line,
                   fmtVars, clockVars>>

\* std::cout << " [" << testeeIdx++ << "] " << itVec.first << "... ";
Subject(rest) ==
    [kind |-> " [" \o to_string(testeeIdx) \o "] " \o m_testees[nameIdx].first \o "... ",
     elapsed_ns |-> 0, text |-> rest]

\* if (!testee.function) { std::cout << "Noop." << std::endl; continue; }
Noop ==
    /\ pc = "slot" /\ nameIdx <= Len(m_testees)
    /\ slotIdx <= Len(m_testees[nameIdx].second)
    /\ ~Testee.function
    /\ line' = Subject("Noop.")
    /\ testeeIdx' = testeeIdx + 1
    /\ slotIdx' = slotIdx + 1
    /\ UNCHANGED <<pc, m_testees, m_columns, m_maxNameLength, minimumRepetitions,
                   nameIdx, columnIdx, i, sum_ns, n, repetitions, out, calls,
                   remainingTime_ns, recorded, fmtVars, clockVars>>

\* testee.minimum_ps = INT64_MAX; testee.maximum_ps = 0; testee.average_ps = 0;
Reset(t) == [t EXCEPT !.minimum_ps = INT64_MAX, !.maximum_ps = 0, !.average_ps = 0]

\* a bound testee: reset its statistics and enter the rough measurement
BeginTestee ==
    /\ pc = "slot" /\ nameIdx <= Len(m_testees)
    /\ slotIdx <= Len(m_testees[nameIdx].second)
    /\ Testee.function
    /\ line' = Subject("")
    /\ testeeIdx' = testeeIdx + 1
    /\ m_testees' = WithTestee(Reset(Testee))
    /\ sum_ns' = 0
    /\ i' = 0
    /\ n' = 0
    /\ repetitions' = 0
    /\ calls' = 0
    /\ remainingTime_ns' = 0
    /\ pc' = "rough"
    /\ UNCHANGED <<m_columns, m_maxNameLength, minimumRepetitions, nameIdx, slotIdx,
                   columnIdx, out, recorded, fmtVars, clockVars>>

\* folds one valid sample of per-call time t_ps into minimum and maximum
Fold(t, t_ps) ==
    [t EXCEPT !.minimum_ps = StdMin(t.minimum_ps, t_ps),
              !.maximum_ps = StdMax(t.maximum_ps, t_ps)]

\* one iteration of the rough measurement loop
RoughSample ==
    /\ pc = "rough" /\ i < minimumRepetitions
    /\ \E diff_ns \in DiffInputs :
        IF diff_ns <= 1
        THEN UNCHANGED <<sum_ns, m_testees>>
        ELSE /\ sum_ns' = sum_ns + diff_ns
             /\ m_testees' = WithTestee(Fold(Testee, diff_ns * 1000))
    /\ calls' = calls + 1
    /\ i' = i + 1
    /\ UNCHANGED <<pc, m_columns, m_maxNameLength, minimumRepetitions, nameIdx, slotIdx,
                   columnIdx, testeeIdx, n, repetitions, out, remainingTime_ns, recorded,
                   line, fmtVars, clockVars>>

\* testee.average_ps = (sum_ns / minimumRepetitions) * 1000;
RoughAverage(sum, count, t) == (sum \div count) * 1000

\* the end of the rough loop: the rough average
RoughEnd ==
    /\ pc = "rough" /\ i = minimumRepetitions
    /\ m_testees' = WithTestee([Testee EXCEPT
            !.average_ps = RoughAverage(sum_ns, minimumRepetitions, Testee)])
    /\ pc' = "decide"
    /\ UNCHANGED <<m_columns, m_maxNameLength, minimumRepetitions, nameIdx, slotIdx,
                   columnIdx, testeeIdx, i, sum_ns, n, repetitions, remainingTime_ns,
                   out, calls, recorded, line,
                   fmtVars, clockVars>>

\* if (testee.average_ps < minDesiredTime_ps)
Below(average_ps) == average_ps < minDesiredTime_ps

\* the batching decision: n, and the reset before the first clarifying pass
Decide ==
    /\ pc = "decide"
    /\ IF Below(Testee.average_ps)
       THEN \E q \in DivOutcomes(minDesiredTime_ps, Testee.average_ps) :
             IF q = DivTrap
             THEN pc' = "fault" /\ UNCHANGED <<n, m_testees, sum_ns, i, calls>>
             ELSE /\ n' = q
                  /\ m_testees' = WithTestee(Reset(Testee))
                  /\ sum_ns' = 0
                  /\ i' = 0
                  /\ calls' = 0
                  /\ pc' = "clarifying1"
       ELSE /\ pc' = "budget"
            /\ UNCHANGED <<n, m_testees, sum_ns, i, calls>>
    /\ UNCHANGED <<m_columns, m_maxNameLength, minimumRepetitions, nameIdx, slotIdx,
                   columnIdx, testeeIdx, repetitions, remainingTime_ns, out, recorded,
                   line, fmtVars, clockVars>>

\* one iteration of a clarifying loop: n calls timed as one sample
ClarifyingSample ==
    /\ pc \in {"clarifying1", "clarifying2"} /\ i < reps
    /\ \E diff_ns \in DiffInputs :
        IF diff_ns <= 1
        THEN UNCHANGED <<sum_ns, m_testees, pc>>
        ELSE \E q \in DivOutcomes(diff_ns * 1000, n) :
              IF q = DivTrap
              THEN pc' = "fault" /\ sum_ns' = sum_ns + diff_ns /\ UNCHANGED m_testees
              ELSE /\ sum_ns' = sum_ns + diff_ns
                   /\ m_testees' = WithTestee(Fold(Testee, q))
                   /\ UNCHANGED pc
    /\ calls' = calls + n
    /\ i' = i + 1
    /\ UNCHANGED <<m_columns, m_maxNameLength, minimumRepetitions, nameIdx, slotIdx,
                   columnIdx, testeeIdx, n, repetitions, out, remainingTime_ns, recorded,
                   line, fmtVars, clockVars>>

\* the end of a clarifying loop: the refined average
\*   testee.average_ps = (sum_ns * 1000) / reps;  testee.average_ps /= n;
ClarifyingEnd ==
    /\ pc \in {"clarifying1", "clarifying2"} /\ i = reps
    /\ \E q \in DivOutcomes((sum_ns * 1000) \div reps, n) :
        IF q = DivTrap
        THEN /\ pc' = "fault"
             /\ m_testees' = WithTestee([Testee EXCEPT
                                !.average_ps = (sum_ns * 1000) \div reps])
        ELSE /\ m_testees' = WithTestee([Testee EXCEPT !.average_ps = q])
             /\ pc' = IF pc = "clarifying1" THEN "clarified1" ELSE "budget"
    /\ UNCHANGED <<m_columns, m_maxNameLength, minimumRepetitions, nameIdx, slotIdx,
                   columnIdx, testeeIdx, i, sum_ns, n, repetitions, remainingTime_ns,
                   out, calls, recorded, line,
                   fmtVars, clockVars>>

\* after the first pass: n from the refined average, and the reset before the
\* second pass
Reclarify ==
    /\ pc = "clarified1"
    /\ \E q \in DivOutcomes(minDesiredTime_ps, Testee.average_ps) :
        IF q = DivTrap
        THEN pc' = "fault" /\ UNCHANGED <<n, m_testees, sum_ns, i, calls>>
        ELSE /\ n' = q
             /\ m_testees' = WithTestee(Reset(Testee))
             /\ sum_ns' = 0
             /\ i' = 0
             /\ calls' = 0
             /\ pc' = "clarifying2"
    /\ UNCHANGED <<m_columns, m_maxNameLength, minimumRepetitions, nameIdx, slotIdx,
                   columnIdx, testeeIdx, repetitions, remainingTime_ns, out, recorded,
                   line, fmtVars, clockVars>>

\* remainingTime_ns and the plan of the main measurement
Budget ==
    /\ pc = "budget"
    /\ \E remaining \in RemainingInputs :
        /\ remainingTime_ns' = remaining
        /\ IF remaining > 0
           THEN \E r \in DivOutcomes(remaining * 1000, Testee.average_ps) :
                \E q \in DivOutcomes(minDesiredTime_ps, Testee.average_ps) :
                  IF r = DivTrap \/ q = DivTrap
                  THEN pc' = "fault" /\ UNCHANGED <<repetitions, n, sum_ns>>
                  ELSE /\ n' = q
                       /\ repetitions' = IF q > 0 THEN r \div q ELSE r
                       /\ sum_ns' = IF q > 0 /\ r \div q > 0 THEN 0 ELSE sum_ns
                       /\ pc' = "main"
           ELSE /\ repetitions' = 0
                /\ pc' = "main"
                /\ UNCHANGED <<n, sum_ns>>
    /\ i' = 0
    /\ calls' = 0
    /\ UNCHANGED <<m_testees, m_columns, m_maxNameLength, minimumRepetitions, nameIdx,
                   slotIdx, columnIdx, testeeIdx, out, recorded, line,
                   fmtVars, clockVars>>

\* one iteration of the main measurement loop (single calls when n == 0,
\* batches of n calls otherwise)
MainSample ==
    /\ pc = "main" /\ i < repetitions
    /\ \E diff_ns \in DiffInputs :
        IF diff_ns <= 1
        THEN UNCHANGED <<sum_ns, m_testees>>
        ELSE /\ sum_ns' = sum_ns + diff_ns
             /\ m_testees' = WithTestee(Fold(Testee,
                    IF n = 0 THEN diff_ns * 1000 ELSE (diff_ns * 1000) \div n))
    /\ calls' = calls + (IF n = 0 THEN 1 ELSE n)
    /\ i' = i + 1
    /\ UNCHANGED <<pc, m_columns, m_maxNameLength, minimumRepetitions, nameIdx, slotIdx,
                   columnIdx, testeeIdx, n, repetitions, out, remainingTime_ns, recorded,
                   line, fmtVars, clockVars>>

\* the average after the main measurement
MainAverage(t) ==
    IF n = 0 THEN (sum_ns \div (minimumRepetitions + repetitions)) * 1000
    ELSE IF repetitions > 0 THEN ((sum_ns * 1000) \div repetitions) \div n
    ELSE t.average_ps

StrLength(x_ps) == Len(makeDurationString(PsOfInt(x_ps)))

\* auto& column = m_columns[columnIdx++];
ColumnOf == columnIdx

\* std::cout << "Done in " << makeDurationString(
\*     (getSteadyTickStd_ns() - benchmarkTesteeBegin_ns) * 1009)
DoneIn(elapsed) ==
    [kind |-> "Done in", elapsed_ns |-> elapsed,
     text |-> makeDurationString(PsOfInt(elapsed * 1009))]

\* std::cout << "\nBenchmark finished in " << makeDurationString(
\*     (getSteadyTickStd_ns() - benchmarkBegin_ns) * 1000)
FinishedIn(elapsed) ==
    [kind |-> "Benchmark finished in", elapsed_ns |-> elapsed,
     text |-> makeDurationString(PsOfInt(elapsed * 1000))]

\* the end of the main loop: the final average, the "Done in" line and the
\* column update
MainEnd ==
    /\ pc = "main" /\ i = repetitions
    /\ LET t == [Testee EXCEPT !.average_ps = MainAverage(Testee)]
           c == ColumnOf + 1
           column == m_columns[c]
       IN  /\ m_testees' = WithTestee(t)
           /\ m_columns' = [m_columns EXCEPT ![c] =
                [minTime_ps |-> StdMin(t.minimum_ps, column.minTime_ps),
                 minTimeStrLength |->
                    StdMax(column.minTimeStrLength, StrLength(t.minimum_ps)),
                 maxTime_ps |-> StdMin(t.maximum_ps, column.maxTime_ps),
                 maxTimeStrLength |->
                    StdMax(column.maxTimeStrLength, StrLength(t.maximum_ps)),
                 avgTime_ps |-> StdMin(t.average_ps, column.avgTime_ps),
                 avgTimeStrLength |->
                    StdMax(column.avgTimeStrLength, StrLength(t.average_ps))]]
           /\ recorded' = recorded \cup {<<nameIdx, slotIdx, c - 1>>}
    /\ columnIdx' = columnIdx + 1
    /\ slotIdx' = slotIdx + 1
    /\ pc' = "slot"
    \* the locals of the loop body leave scope, and with them what was observed
    /\ i' = 0 /\ sum_ns' = 0 /\ n' = 0 /\ repetitions' = 0 /\ remainingTime_ns' = 0
    /\ calls' = 0
    /\ \E elapsed \in ElapsedInputs : line' = DoneIn(elapsed)
    /\ UNCHANGED <<m_maxNameLength, minimumRepetitions, nameIdx, testeeIdx, out,
                   fmtVars, clockVars>>

\* float perc = 0.1f * float((testeeTime_ps * 1000) / std::max(time_ps, INT64_C(1)));
\* if (perc >= 1000.0f) perc = float(uint32_t(perc));   -- in tenths of a percent
Perc(testeeTime_ps, time_ps) ==
    LET tenths == CDiv(Times1000(testeeTime_ps), StdMax(time_ps, 1))
    IN  IF tenths >= 10000 THEN (tenths \div 10) * 10 ELSE tenths

\* the rows print(mode) writes: one entry per slot of every name
Table(mode) ==
    [k \in 1..Len(m_testees) |->
        [name |-> m_testees[k].first,
         entries |->
            [c \in 1..Len(m_testees[k].second) |->
                LET testee == m_testees[k].second[c]
                    column == m_columns[c]
                    testeeTime_ps == CASE mode = 0 -> testee.minimum_ps
                                       [] mode = 1 -> testee.maximum_ps
                                       [] mode = 2 -> testee.average_ps
                    time_ps == CASE mode = 0 -> column.minTime_ps
                                 [] mode = 1 -> column.maxTime_ps
                                 [] mode = 2 -> column.avgTime_ps
                IN  [time |-> makeDurationString(PsOfInt(testeeTime_ps)),
                     perc |-> Perc(testeeTime_ps, time_ps)]]]]

\* the loops are over: print(0); print(1); print(2); and the closing line
PrintTables ==
    /\ pc = "slot" /\ nameIdx > Len(m_testees)
    /\ out' = <<Table(0), Table(1), Table(2)>>
    /\ \E elapsed \in ElapsedInputs : line' = FinishedIn(elapsed)
    /\ pc' = "done"
    /\ UNCHANGED <<m_testees, m_columns, m_maxNameLength, minimumRepetitions, nameIdx,
                   slotIdx, columnIdx, testeeIdx, i, sum_ns, n, repetitions, calls,
                   remainingTime_ns, recorded, fmtVars, clockVars>>

RunNext ==
    \/ SetColumnsNumber
    \/ Add
    \/ Run
    \/ NextName
    \/ Noop
    \/ BeginTestee
    \/ RoughSample
    \/ RoughEnd
    \/ Decide
    \/ ClarifyingSample
    \/ ClarifyingEnd
    \/ Reclarify
    \/ Budget
    \/ MainSample
    \/ MainEnd
    \/ PrintTables

SpecRun == RunInit /\ [][RunNext]_vars

(***************************************************************************)
(* Properties of makeDurationString                                        *)
(***************************************************************************)
\* The tier table as the specification states it, on the pair
\* (whole seconds, nanoseconds below the second) and with the checker's own
\* decimal conversion.
SubNs(d) == (d.ms * 1000 + d.us) * 1000 + d.ns
NsAtMost(d, sec, sub) == d.s < sec \/ (d.s = sec /\ SubNs(d) <= sub)
Pad(x, w) ==
    IF w = 3 /\ x < 10 THEN "00" \o ToString(x)
    ELSE IF (w = 3 /\ x < 100) \/ (w = 2 /\ x < 10) THEN "0" \o ToString(x)
    ELSE ToString(x)
TwoUnits(major, unit, minor, w, subunit) ==
    ToString(major) \o unit \o " " \o Pad(minor, w) \o subunit
TierTable(d) ==
    IF d.s = 0 /\ SubNs(d) = 0 THEN ToString(d.ps) \o "ps"
    ELSE IF NsAtMost(d, 0, 999) THEN TwoUnits(SubNs(d), "ns", d.ps, 3, "ps")
    ELSE IF NsAtMost(d, 0, 999000)
        THEN TwoUnits(SubNs(d) \div 1000, "us", SubNs(d) % 1000, 3, "ns")
    ELSE IF NsAtMost(d, 0, 999000000)
        THEN TwoUnits(SubNs(d) \div 1000000, "ms", (SubNs(d) \div 1000) % 1000, 3, "us")
    ELSE IF NsAtMost(d, 59, 0) THEN TwoUnits(d.s, "s", SubNs(d) \div 1000000, 3, "ms")
    ELSE IF NsAtMost(d, 59 * 60, 0) THEN TwoUnits(d.s \div 60, "m", d.s % 60, 2, "s")
    ELSE IF NsAtMost(d, 23 * 3600, 0)
        THEN TwoUnits(d.s \div 3600, "h", (d.s \div 60) % 60, 2, "m")
    ELSE TwoUnits(d.s \div 86400, "d", (d.s \div 3600) % 24, 2, "h")

PsOf(sec, us, ns, ps) == [s |-> sec, ms |-> 0, us |-> us, ns |-> ns, ps |-> ps]

\* C5: makeDurationString follows the tier table on its whole domain: an input
\* of at most 999 ps gives "{d}ps", any other input gives major and zero-padded
\* minor unit of the tier picked by the thresholds 999 ns, 999 us, 999 ms, 59 s,
\* 59 m, 23 h; and 500 -> "500ps", 1500 -> "1ns 500ps", 1500000 -> "1us 500ns",
\* 61000000000000 -> "1m 01s".
C5_FollowsTierTable ==
    fmtPc = "ret" =>
        /\ result = TierTable(duration_ps)
        /\ duration_ps = PsOf(0, 0, 0, 500) => result = "500ps"
        /\ duration_ps = PsOf(0, 0, 1, 500) => result = "1ns 500ps"
        /\ duration_ps = PsOf(0, 1, 500, 0) => result = "1us 500ns"
        /\ duration_ps = PsOf(61, 0, 0, 0) => result = "1m 01s"

C5_Witness ==
    fmtPc = "ret" /\ duration_ps = PsOf(61, 0, 0, 0) /\ result = "1m 01s"

\* C6: for every input of the domain makeDurationString returns a string of 3
\* to 11 characters.
C6_LengthWithin3And11 ==
    fmtPc = "ret" => (Len(result) >= 3 /\ Len(result) <= 11)

C6_Witness ==
    fmtPc = "ret" /\ duration_ps = Int64MaxPs /\ result = "106d 18h"

\* Reading a two-unit result back: the major number is the leading digits, the
\* major unit the letters between them and the blank.
IsDigit(ch) == ch \in {"0", "1", "2", "3", "4", "5", "6", "7", "8", "9"}
DigitValue(ch) == CHOOSE d \in 0..9 : ToString(d) = ch
SpaceAt(r) == CHOOSE p \in 1..Len(r) : SubSeq(r, p, p) = " "
DigitsLen(r) ==
    CHOOSE k \in 0..Len(r) :
        /\ \A j \in 1..k : IsDigit(SubSeq(r, j, j))
        /\ k = Len(r) \/ ~IsDigit(SubSeq(r, k + 1, k + 1))
RECURSIVE NatOf(_)
NatOf(str) ==
    IF Len(str) = 0 THEN 0
    ELSE NatOf(SubSeq(str, 1, Len(str) - 1)) * 10
            + DigitValue(SubSeq(str, Len(str), Len(str)))
PrintedMajor(r) == NatOf(SubSeq(r, 1, DigitsLen(r)))
PrintedUnit(r) == SubSeq(r, DigitsLen(r) + 1, SpaceAt(r) - 1)
\* the largest major number of a tier (the day tier has none below the domain's end)
TierMaximum(unit) ==
    CASE unit \in {"ns", "us", "ms"} -> 999
      [] unit \in {"s", "m"} -> 59
      [] unit = "h" -> 23
      [] unit = "d" -> Int64MaxPs.s \div 86400
\* the value is less than one unit of the next coarser tier
UnderNextTier(unit, d) ==
    CASE unit = "ns" -> d.s = 0 /\ d.ms = 0 /\ d.us = 0
      [] unit = "us" -> d.s = 0 /\ d.ms = 0
      [] unit = "ms" -> d.s = 0
      [] unit = "s" -> d.s < 60
      [] unit = "m" -> d.s < 3600
      [] unit = "h" -> d.s < 86400
      [] unit = "d" -> TRUE
AbovePs(d) == d.s > 0 \/ SubNs(d) > 0

\* C11: for every input above 999 ps the value fits the chosen tier: the
\* printed major number is at least 1 and at most the tier's maximum (999 for
\* ns, us, ms; 59 for s, m; 23 for h), and the tier is the coarsest such one.
C11_ValueFitsTier ==
    (fmtPc = "ret" /\ AbovePs(duration_ps)) =>
        /\ PrintedMajor(result) >= 1
        /\ PrintedMajor(result) <= TierMaximum(PrintedUnit(result))
        /\ UnderNextTier(PrintedUnit(result), duration_ps)


(***************************************************************************)
(* Properties of run                                                       *)
(***************************************************************************)
\* the slots <<name position, slot position>> of the registry
Slots == {sl \in {<<a, b>> : a \in 1..Len(m_testees), b \in 1..MaxColumns} :
            sl[2] <= Len(m_testees[sl[1]].second)}
SlotAt(sl) == m_testees[sl[1]].second[sl[2]]
BoundSlots == {sl \in Slots : SlotAt(sl).function}
\* the smallest element of a non-empty set of integers
Least(S) == CHOOSE x \in S : \A y \in S : x <= y

\* C1: after run, every bound testee with at least one valid sample has
\* minimum_ps <= average_ps <= maximum_ps, whatever the samples were (discarded
\* ones included), on the unbatched and on the batched path.
C1_MinAvgMax ==
    pc = "done" =>
        \A sl \in BoundSlots :
            SlotAt(sl).minimum_ps # INT64_MAX =>
                /\ SlotAt(sl).minimum_ps <= SlotAt(sl).average_ps
                /\ SlotAt(sl).average_ps <= SlotAt(sl).maximum_ps

\* C2: a slot without a callable is skipped entirely: it is never measured, it
\* has no entry in the printed rows, and skipping it changes neither a column's
\* baselines nor the column any other slot is recorded under (every measured
\* slot is recorded under the column of its own index).
C2_NoopSkippedEntirely ==
    pc = "done" =>
        /\ \A sl \in Slots \ BoundSlots :
            /\ SlotAt(sl) = TesteeMeta
            /\ \A mode \in 1..3 : sl[2] \notin DOMAIN out[mode][sl[1]].entries
        /\ \A r \in recorded : r[3] = r[2] - 1

\* C3: after run, the baselines of column c are the smallest minimum_ps,
\* maximum_ps and average_ps over exactly the testees bound at column index c
\* (and untouched when there is none).
C3_ColumnBaselines ==
    pc = "done" =>
        \A c \in 1..Len(m_columns) :
            LET at == {sl \in BoundSlots : sl[2] = c}
            IN  IF at = {}
                THEN /\ m_columns[c].minTime_ps = INT64_MAX
                     /\ m_columns[c].maxTime_ps = INT64_MAX
                     /\ m_columns[c].avgTime_ps = INT64_MAX
                ELSE /\ m_columns[c].minTime_ps = Least({SlotAt(sl).minimum_ps : sl \in at})
                     /\ m_columns[c].maxTime_ps = Least({SlotAt(sl).maximum_ps : sl \in at})
                     /\ m_columns[c].avgTime_ps = Least({SlotAt(sl).average_ps : sl \in at})

\* the metric of a slot and the baseline of a column, by table
Metric(t, mode) ==
    CASE mode = 1 -> t.minimum_ps [] mode = 2 -> t.maximum_ps [] mode = 3 -> t.average_ps
Baseline(col, mode) ==
    CASE mode = 1 -> col.minTime_ps [] mode = 2 -> col.maxTime_ps [] mode = 3 -> col.avgTime_ps

\* C4: for every measured testee and metric the printed percentage is, in
\* tenths of a percent, floor(metric * 1000 / max(baseline of its own column, 1));
\* the testee that holds the baseline is printed as 100.0 and no measured
\* testee below 100.0.  (A metric still at INT64_MAX is left out of the
\* quotient, which does not fit the checker's integers.)
C4_RelativePercentage ==
    pc = "done" =>
        \A sl \in BoundSlots : \A mode \in 1..3 :
            LET metric == Metric(SlotAt(sl), mode)
                base == Baseline(m_columns[sl[2]], mode)
                perc == out[mode][sl[1]].entries[sl[2]].perc
            IN  /\ perc >= 1000
                /\ metric = base => perc = 1000
                /\ metric # INT64_MAX =>
                    perc = (metric * 1000) \div StdMax(base, 1)

\* C9: per testee the phases run in the order rough, clarifying, main: the
\* rough phase makes exactly minimumRepetitions calls; exactly when the rough
\* average is below the threshold two clarifying passes of reps samples follow,
\* the first with n = floor(threshold / rough average) calls a sample, the
\* second with n = floor(threshold / first refined average), each computing its
\* average as (sum * 1000 / reps) / n; otherwise none runs and n stays 0.
C9_PhaseOrder ==
    [][ /\ pc = "decide" =>
            /\ calls = minimumRepetitions
            /\ IF Testee.average_ps < minDesiredTime_ps
               THEN /\ Testee.average_ps # 0
                    /\ pc' = "clarifying1"
                    /\ n' = minDesiredTime_ps \div Testee.average_ps
               ELSE pc' = "budget" /\ n' = 0
        /\ (pc \in {"clarifying1", "clarifying2"} /\ i < reps) =>
            /\ pc' = pc
            /\ calls' = calls + n
        /\ (pc \in {"clarifying1", "clarifying2"} /\ i = reps) =>
            /\ calls = reps * n
            /\ n # 0
            /\ pc' = (IF pc = "clarifying1" THEN "clarified1" ELSE "budget")
            /\ Testee'.average_ps = ((sum_ns * 1000) \div reps) \div n
        /\ pc = "clarified1" =>
            /\ Testee.average_ps # 0
            /\ pc' = "clarifying2"
            /\ n' = minDesiredTime_ps \div Testee.average_ps
      ]_vars

\* C10: when the remaining budget is <= 0 after the rough and clarifying
\* phases, run makes no further call of the callable and leaves minimum_ps,
\* maximum_ps and average_ps as the last completed phase set them.
C10_NoBudgetNoMain ==
    [][ (pc = "main" /\ remainingTime_ns <= 0) =>
            /\ calls' = calls
            /\ pc' = "slot"
            /\ m_testees'[nameIdx].second[slotIdx] = Testee
      ]_vars

\* C12: during run every division is by a non-zero value, whatever the samples
\* were: the rough and the refined average are non-zero where n and the
\* repetition count are computed from them, and n is at least 1 wherever a
\* batch time or a batched average is divided by it; no division traps.
C12_NoZeroDivisor ==
    /\ (pc = "decide" /\ Below(Testee.average_ps)) => Testee.average_ps # 0
    /\ pc \in {"clarifying1", "clarifying2"} => n >= 1
    /\ pc = "clarified1" => Testee.average_ps # 0
    /\ pc = "budget" => Testee.average_ps # 0
    /\ (pc = "main" /\ n # 0 /\ repetitions > 0) => n >= 1
    /\ pc # "fault"

\* C13: the duration printed after "Done in" is the elapsed time of the testee
\* converted from nanoseconds to picoseconds by the factor 1000 of the
\* "Benchmark finished in" line: equal elapsed nanoseconds print equally on
\* both lines.
C13_DoneInSameFactor ==
    line.kind = "Done in" =>
        /\ line.text = makeDurationString(PsOfInt(line.elapsed_ns * 1000))
        /\ line.text = FinishedIn(line.elapsed_ns).text

(***************************************************************************)
(* Properties of the clock                                                 *)
(***************************************************************************)
\* C7: two successive calls of getSteadyTick_ns return t1 then t2 with
\* t2 >= t1, on the raw-counter path too and also when the two reads report
\* processors with different stored frequencies.
C7_TickNonDecreasing ==
    (prevTick # NoTick /\ tick # NoTick) => TickLe(prevTick, tick)

\* C8: after construction every frequency getSteadyTick_ns can divide by is
\* non-zero, whatever the registry calls return.
C8_FrequencyNonZero ==
    ctorPc = "constructed" =>
        CASE platform = "win_x64" -> \A p \in Procs : s_Hz[p] # 0
          [] platform = "win_arm64" -> s_Hz # 0
          [] OTHER -> TRUE

====
